---- MODULE Spec2Model ----
EXTENDS Integers, Sequences, FiniteSets, TLC

(***************************************************************************)
(* Model of src/use-state-dev-tools/diff.ts (first implementation in the   *)
(* file, lines 1-127): diff / applyDiff over dynamically typed values.     *)
(*                                                                         *)
(* A JavaScript value is a record                                          *)
(*   t  : "undefined" | "null" | "nan" | "number" | "array" | "function"   *)
(*        | "object"                                                       *)
(*   n  : the number held by a "number" (0 otherwise)                      *)
(*   id : the reference identity of an array / function / object; 0 is the *)
(*        identity of an object allocated by diff, -1 that of a copy made  *)
(*        by applyDiff                                                     *)
(*   ks : own enumerable keys in insertion order (Object.keys)             *)
(*   m  : key -> value                                                     *)
(* A diff is itself such a value: diff() returns plain objects.            *)
(*                                                                         *)
(* The store of time-travel.ts and the hooks useStateDevTools,             *)
(* useDebounce, useThrottle, useReversible,                                *)
(* useEventUntilConditionOrTimeout and useReversibleAnimation each have a  *)
(* specification of their own over one record variable; time is discrete   *)
(* and a timer that is due runs before time passes.                        *)
(***************************************************************************)

VARIABLES a, b, difff, applied, reverted, unapplied, pc, states, diffs, cur, pos,
          base, to, out, written, store, calls, failed,
          deb, thr, rev, evt, anim, hook

vars == <<a, b, difff, applied, reverted, unapplied, pc, states, diffs, cur, pos,
          base, to, out, written, store, calls, failed,
          deb, thr, rev, evt, anim, hook>>

pipeVars == <<a, b, difff, applied, reverted, unapplied>>
histVars == <<states, diffs, cur, pos>>
applyVars == <<base, to, out>>
storeVars == <<store, calls, failed>>
diffVars == <<pipeVars, pc, histVars, applyVars, written>>
hookVars == <<deb, thr, rev, evt, anim, hook>>

\* ---- bounds ----
MaxNum == 1
MaxHist == 3
MaxCalls == 3
MaxTime == 4

\* ---- value constructors ----
EmptyMap == [k \in {} |-> 0]

Undefined == [t |-> "undefined", n |-> 0, id |-> 0, ks |-> <<>>, m |-> EmptyMap]
Null == [t |-> "null", n |-> 0, id |-> 0, ks |-> <<>>, m |-> EmptyMap]
NaN == [t |-> "nan", n |-> 0, id |-> 0, ks |-> <<>>, m |-> EmptyMap]
Num(i) == [t |-> "number", n |-> i, id |-> 0, ks |-> <<>>, m |-> EmptyMap]
Fn(i) == [t |-> "function", n |-> 0, id |-> i, ks |-> <<>>, m |-> EmptyMap]
Arr(i, elems) == [t |-> "array", n |-> 0, id |-> i, ks |-> <<"0">>, m |-> [k \in {"0"} |-> elems]]
Obj(i, keys, map) == [t |-> "object", n |-> 0, id |-> i, ks |-> keys, m |-> map]

\* not a value: the call raised a TypeError instead of returning
Thrown == [t |-> "thrown", n |-> 0, id |-> 0, ks |-> <<>>, m |-> EmptyMap]

\* {} allocated by diff itself (identity 0)
NewObj(keys, map) == Obj(0, keys, map)

\* ---- primitives of the language ----
\* Object.prototype: what every object, list and function inherits (the
\* members whose names the inputs use as keys)
ObjectPrototype ==
  [k \in {"hasOwnProperty", "constructor"} |-> IF k = "hasOwnProperty" THEN Fn(-2) ELSE Fn(-3)]

\* a[key]: an own property, else one inherited from Object.prototype
Get(v, key) ==
  IF key \in DOMAIN v.m THEN v.m[key]
  ELSE IF v.t \in {"object", "array", "function"} /\ key \in DOMAIN ObjectPrototype
       THEN ObjectPrototype[key]
       ELSE Undefined

\* Object.keys(v)
ObjectKeys(v) == v.ks

\* v.hasOwnProperty(key)
hasOwnProperty(v, key) == key \in DOMAIN v.m

\* v[key] = x on an object (keeps the position of an existing key)
SetKey(v, key, x) ==
  [v EXCEPT !.ks = IF key \in DOMAIN v.m THEN v.ks ELSE Append(v.ks, key),
            !.m = [k \in (DOMAIN v.m) \cup {key} |-> IF k = key THEN x ELSE v.m[k]]]

\* !!v
Truthy(v) == ~(v.t \in {"undefined", "null", "nan"} \/ (v.t = "number" /\ v.n = 0))

\* x === y with lists compared by their contents
StrictEqByContent(x, y) ==
  /\ x.t # "nan"
  /\ IF x.t = "array" /\ y.t = "array" THEN x.m = y.m ELSE x = y

\* x === y
\* (a value is the same reference exactly when the records, identity
\* included, are equal; NaN is not equal to itself)
StrictEq(x, y) == x.t # "nan" /\ x = y

\* Array.from(new Set(s)): first occurrences, in order
RECURSIVE Dedup(_)
Dedup(s) ==
  IF s = <<>> THEN <<>>
  ELSE LET front == Dedup(SubSeq(s, 1, Len(s) - 1))
           last == s[Len(s)]
       IN IF \E i \in 1..Len(front) : front[i] = last THEN front ELSE Append(front, last)

\* ---- diff.ts ----
\* typeof value === 'object' && !Array.isArray(value), without the !!value guard
isObjectTypeof(value) == value.t \in {"object", "null"}

isObject(value) == Truthy(value) /\ value.t = "object"

isArray(value) == value.t = "array"

PrimitiveDiff(x, y) ==
  NewObj(<<"_diff">>,
      [k \in {"_diff"} |-> NewObj(<<"a", "b">>, [j \in {"a", "b"} |-> IF j = "a" THEN x ELSE y])])

RECURSIVE diff(_, _)
RECURSIVE diffReduce(_, _, _, _)

\* the reduce without `if (difff)`: every visited key is stored
diffReduceKeepAbsent(x, y, keys, i) ==
  IF i = 0 THEN NewObj(<<>>, EmptyMap)
  ELSE LET acc == diffReduce(x, y, keys, i - 1)
           d == diff(Get(x, keys[i]), Get(y, keys[i]))
       IN SetKey(acc, keys[i], d)

\* the reduce pairing the i-th key of a with the i-th key of b
diffReducePositional(x, y, keys, i) ==
  IF i = 0 THEN NewObj(<<>>, EmptyMap)
  ELSE LET acc == diffReduce(x, y, keys, i - 1)
           kx == IF i <= Len(x.ks) THEN x.ks[i] ELSE keys[i]
           ky == IF i <= Len(y.ks) THEN y.ks[i] ELSE keys[i]
           d == diff(Get(x, kx), Get(y, ky))
       IN IF Truthy(d) THEN SetKey(acc, keys[i], d) ELSE acc

\* keys.reduce((diffs, key) => ..., {}) of diff
diffReduce(x, y, keys, i) ==
  IF i = 0 THEN NewObj(<<>>, EmptyMap)
  ELSE LET acc == diffReduce(x, y, keys, i - 1)
           d == diff(Get(x, keys[i]), Get(y, keys[i]))
       IN IF Truthy(d) THEN SetKey(acc, keys[i], d) ELSE acc

\* diff without `if (!Object.keys(diffs).length) return`
diffNoEmptyCheck(x, y) ==
  IF isObject(x) /\ isObject(y)
  THEN LET keys == Dedup(ObjectKeys(x) \o ObjectKeys(y))
       IN diffReduce(x, y, keys, Len(keys))
  ELSE IF ~StrictEq(x, y) THEN PrimitiveDiff(x, y) ELSE Undefined

\* diff visiting Object.keys(a) only
diffKeysOfA(x, y) ==
  IF isObject(x) /\ isObject(y)
  THEN LET keys == Dedup(ObjectKeys(x))
           ds == diffReduce(x, y, keys, Len(keys))
       IN IF Len(ObjectKeys(ds)) = 0 THEN Undefined ELSE ds
  ELSE IF ~StrictEq(x, y) THEN PrimitiveDiff(x, y) ELSE Undefined

\* diff taking the object branch only when both mappings have keys
diffEmptyAsLeaf(x, y) ==
  IF isObject(x) /\ isObject(y) /\ Len(ObjectKeys(x)) > 0 /\ Len(ObjectKeys(y)) > 0
  THEN LET keys == Dedup(ObjectKeys(x) \o ObjectKeys(y))
           ds == diffReduce(x, y, keys, Len(keys))
       IN IF Len(ObjectKeys(ds)) = 0 THEN Undefined ELSE ds
  ELSE IF ~StrictEq(x, y) THEN PrimitiveDiff(x, y) ELSE Undefined

diff(x, y) ==
  IF isObject(x) /\ isObject(y)
  THEN LET keys == Dedup(ObjectKeys(x) \o ObjectKeys(y))
           ds == diffReduce(x, y, keys, Len(keys))
       IN IF Len(ObjectKeys(ds)) = 0 THEN Undefined ELSE ds
  ELSE IF ~StrictEq(x, y) THEN PrimitiveDiff(x, y) ELSE Undefined

isPrimitiveDiff(value) ==
  /\ isObject(value)
  /\ hasOwnProperty(value, "_diff")
  /\ hasOwnProperty(Get(value, "_diff"), "a")
  /\ hasOwnProperty(Get(value, "_diff"), "b")
  /\ Len(ObjectKeys(Get(value, "_diff"))) = 2

isObjectDiff(value) == isObject(value) /\ ~hasOwnProperty(value, "_diff")

\* v.hasOwnProperty(...) is not a function: v has an own property of that
\* name which shadows Object.prototype.hasOwnProperty and is not callable
hasOwnPropertyThrows(v) ==
  /\ v.t \in {"object", "array"}
  /\ "hasOwnProperty" \in DOMAIN v.m
  /\ v.m["hasOwnProperty"].t # "function"

\* isPrimitiveDiff(value) raises: value.hasOwnProperty('_diff') or
\* value._diff?.hasOwnProperty('a') calls something that is not a function
isPrimitiveDiffThrows(value) ==
  /\ isObject(value)
  /\ \/ hasOwnPropertyThrows(value)
     \/ /\ hasOwnProperty(value, "_diff")
        /\ Get(value, "_diff").t \notin {"undefined", "null"}
        /\ hasOwnPropertyThrows(Get(value, "_diff"))

\* result = originalValue: no copy is made
ShallowCopyAlias(v) == v

\* result = {} / []: the copy forgets the spread
ShallowCopyEmpty(v) == [v EXCEPT !.id = -1, !.ks = <<>>, !.m = EmptyMap]

\* {...v} / [...v]
ShallowCopy(v) == [v EXCEPT !.id = -1]

RECURSIVE applyDiff(_, _, _)
RECURSIVE applyDiffForEach(_, _, _, _, _)

\* Object.keys(diff).forEach(key => result[key] = applyDiff(result[key], diff[key], to))
applyDiffForEach(res, d, dir, keys, i) ==
  IF i = 0 THEN res
  ELSE LET acc == applyDiffForEach(res, d, dir, keys, i - 1)
       IN IF acc = Thrown THEN Thrown
          ELSE LET r == applyDiff(Get(acc, keys[i]), Get(d, keys[i]), dir)
               IN IF r = Thrown THEN Thrown ELSE SetKey(acc, keys[i], r)

\* applyDiff returning the 'b' side whatever `to` says
applyDiffAlwaysForward(originalValue, d, dir) ==
  IF isPrimitiveDiffThrows(d) THEN Thrown
  ELSE IF isPrimitiveDiff(d) THEN Get(Get(d, "_diff"), "b")
  ELSE LET res == IF isObject(originalValue) THEN ShallowCopy(originalValue)
                  ELSE IF isArray(originalValue) THEN ShallowCopy(originalValue)
                  ELSE originalValue
       IN IF ~Truthy(d) THEN res
          ELSE IF isObject(res) /\ isObjectDiff(d)
               THEN applyDiffForEach(res, d, dir, ObjectKeys(d), Len(ObjectKeys(d)))
               ELSE Undefined

applyDiff(originalValue, d, dir) ==
  IF isPrimitiveDiffThrows(d) THEN Thrown
  ELSE IF isPrimitiveDiff(d) THEN Get(Get(d, "_diff"), dir)
  ELSE LET res == IF isObject(originalValue) THEN ShallowCopy(originalValue)
                  ELSE IF isArray(originalValue) THEN ShallowCopy(originalValue)
                  ELSE originalValue
       IN IF ~Truthy(d) THEN res
          ELSE IF isObject(res) /\ isObjectDiff(d)
               THEN applyDiffForEach(res, d, dir, ObjectKeys(d), Len(ObjectKeys(d)))
               ELSE Undefined

\* the identities of the objects assigned to by diff(x, y): diffs[key] = difff
RECURSIVE diffWritten(_, _)
diffWritten(x, y) ==
  IF isObject(x) /\ isObject(y)
  THEN LET keys == Dedup(ObjectKeys(x) \o ObjectKeys(y))
           ds == diffReduce(x, y, keys, Len(keys))
       IN (IF Len(ObjectKeys(ds)) > 0 THEN {ds.id} ELSE {})
            \cup UNION {diffWritten(Get(x, keys[i]), Get(y, keys[i])) : i \in 1..Len(keys)}
  ELSE {}

\* the identities of the objects assigned to by applyDiff(originalValue, d,
\* dir): result[key] = applyDiff(result[key], diff[key], to)
RECURSIVE applyDiffWritten(_, _, _)
applyDiffWritten(originalValue, d, dir) ==
  IF isPrimitiveDiffThrows(d) \/ isPrimitiveDiff(d) THEN {}
  ELSE LET res == IF isObject(originalValue) THEN ShallowCopy(originalValue)
                  ELSE IF isArray(originalValue) THEN ShallowCopy(originalValue)
                  ELSE originalValue
       IN IF Truthy(d) /\ isObject(res) /\ isObjectDiff(d)
          THEN (IF Len(ObjectKeys(d)) > 0 THEN {res.id} ELSE {})
                 \cup UNION {applyDiffWritten(Get(res, k), Get(d, k), dir) : k \in DOMAIN d.m}
          ELSE {}

\* ---- equality notions used by the properties ----
\* expect(x).toEqual(y): recursive equality; a key holding undefined counts
\* as absent, NaN equals NaN, arrays by content, functions by reference
RECURSIVE toEqual(_, _)
toEqual(x, y) ==
  IF x.t # y.t THEN FALSE
  ELSE IF x.t = "number" THEN x.n = y.n
  ELSE IF x.t = "function" THEN x.id = y.id
  ELSE IF x.t \in {"object", "array"}
       THEN \A k \in (DOMAIN x.m) \cup (DOMAIN y.m) :
              toEqual(IF k \in DOMAIN x.m THEN x.m[k] ELSE Undefined,
                      IF k \in DOMAIN y.m THEN y.m[k] ELSE Undefined)
  ELSE TRUE

\* ---- time-travel.ts: the process-wide store ----
\* globalThis._STATE_DEV_TOOLS_: present or not, its stateNamespaces present
\* or not, and the own properties of stateNamespaces
NoStore == [present |-> FALSE, hasNamespaces |-> FALSE, ns |-> EmptyMap]

\* { stateEntries: [] }
NewNamespace == [isNamespace |-> TRUE, stateEntries |-> <<>>]

\* a member of Object.prototype found under the id: a function, which has
\* no stateEntries
InheritedMember == [isNamespace |-> FALSE, stateEntries |-> <<>>]

\* stateNamespaces[namespaceId] || { stateEntries: [] }
NamespaceOrNew(ns, namespaceId) ==
  IF namespaceId \in DOMAIN ns THEN ns[namespaceId]
  ELSE IF namespaceId \in DOMAIN ObjectPrototype THEN InheritedMember
       ELSE NewNamespace

setupNamespace(g, namespaceId) ==
  LET ns == IF g.present /\ g.hasNamespaces THEN g.ns ELSE EmptyMap
  IN [present |-> TRUE,
      hasNamespaces |-> TRUE,
      ns |-> [k \in (DOMAIN ns) \cup {namespaceId} |->
                IF k = namespaceId THEN NamespaceOrNew(ns, namespaceId) ELSE ns[k]]]

\* stateNamespaces[namespaceId].stateEntries.push(...) raises a TypeError:
\* stateEntries is undefined
storeDiffThrows(g, namespaceId) == ~setupNamespace(g, namespaceId).ns[namespaceId].isNamespace

\* the store after storeDiff(namespaceId, d); when the push raises, what
\* setupNamespace did stays
storeDiff(g, namespaceId, d) ==
  LET g1 == setupNamespace(g, namespaceId)
  IN IF storeDiffThrows(g, namespaceId) THEN g1
     ELSE [g1 EXCEPT !.ns[namespaceId].stateEntries = Append(@, [diff |-> d])]

\* ---- the hooks, as mounted ----
\* useDebounce after the first render: timeoutId = useRef() is undefined (0
\* here; the handles setTimeout returns are truthy), no timer is pending;
\* calls and invoked are the history of the calls of the returned callback
\* and of the invocations of the wrapped one
DebounceDelays == {1, 2}
DebounceMounted ==
  [now |-> 0, timers |-> {}, timeoutId |-> 0, nextId |-> 1,
   timeoutMs |-> 1, callback |-> "first", calls |-> <<>>, invoked |-> <<>>]
\* useThrottle after the first render: prevCallTimestamp = useRef(0),
\* timeoutId = useRef() (0 here); running holds the calls whose
\* callbackWrapper has started and has not reached its finally block; calls
\* and started are the history of the calls of the throttled function and
\* of the starts of the wrapped callback. Date.now() is at least
\* throttleMs away from 0.
ThrottleDelays == {2, 3}
ThrottleMounted ==
  [now |-> 0, throttleMs |-> 0, async |-> FALSE, timers |-> {}, timeoutId |-> 0,
   nextId |-> 1, prevCallTimestamp |-> 0, running |-> {}, calls |-> <<>>,
   started |-> <<>>]
\* useReversible(0) after the first render: value = useState(initialValue),
\* prevValue = useRef(initialValue); p holds the closure variable p of every
\* setValueReversible call; queue holds the updaters React has not run yet;
\* changedFrom is the value the state had before its most recent change,
\* passed the (previous, changedFrom) pairs of the updater invocations and
\* ops the history of the calls
ReversibleMounted ==
  [value |-> 0, prevValue |-> 0, p |-> <<>>, queue |-> <<>>,
   changedFrom |-> 0, passed |-> <<>>, ops |-> <<>>]
\* useEventUntilConditionOrTimeout after the first render: useAbortRequest
\* holds one AbortController (controller, a number), none is aborted yet;
\* regs is the history of the registrations, each with the signal it
\* captured, timers the pending cleanup timers and inflight the listener
\* calls that have not settled
ListenerTimeouts == {2}
ListenersMounted ==
  [now |-> 0, timeout |-> 0, controller |-> 1, aborted |-> {}, regs |-> <<>>,
   timers |-> {}, inflight |-> {}]
\* useReversibleAnimation after the first render: animations = useRef({}),
\* animationsCount = useRef(0); animations maps an id to the animate call
\* whose animations it holds; unreversed holds the animate calls whose
\* animations have not been reversed and ops is the history of the calls
AnimationMounted ==
  [animations |-> EmptyMap, animationsCount |-> 0, unreversed |-> {}, ops |-> <<>>]
\* useStateDevTools(useState(v0), uniqueName) during its first render:
\* prevVal = useRef(val); the effect of the first render is pending. first
\* is v0, result the value the hook returned from its last render, runs
\* the (prevVal.current, val) pairs the effect has seen, crashed whether the
\* effect raised (React then unmounts the tree)
DevToolsMounted ==
  [id |-> "x", val |-> Undefined, prevVal |-> Undefined, first |-> Undefined,
   result |-> Undefined, effectPending |-> FALSE, crashed |-> FALSE, runs |-> <<>>]

\* ---- the values the operations are exercised on ----
Nums == {Num(i) : i \in 0..MaxNum}
Prims == {Undefined, Null, NaN} \cup Nums
Arrays == {Arr(1, Num(1)), Arr(2, Num(1))}
Functions == {Fn(1), Fn(2)}
Atoms == Prims \cup Arrays \cup Functions

Keys == {"_diff", "a", "b"}

\* the mappings of one snapshot; o is the identity its mappings carry, so
\* that the mappings of two snapshots are distinct objects
Leaves == {Undefined, NaN} \cup Nums \cup Arrays
Objs0(o) == {Obj(o, <<>>, EmptyMap)}
Objs1Of(o, vals) == {Obj(o, <<k>>, [j \in {k} |-> v]) : k \in Keys, v \in vals}
Objs2Of(o, vals) ==
  {Obj(o, <<kk[1], kk[2]>>, [j \in {kk[1], kk[2]} |-> IF j = kk[1] THEN v[1] ELSE v[2]]) :
     kk \in {p \in Keys \X Keys : p[1] # p[2]}, v \in vals \X vals}
Flat(o) == Objs0(o) \cup Objs1Of(o, Leaves) \cup Objs2Of(o, Nums)
Nested(o) == Objs1Of(o, Flat(o))
\* a nested mapping next to a primitive: {k1: {k: n}, k2: n'}
Mixed(o) ==
  {Obj(o, <<kk[1], kk[2]>>, [j \in {kk[1], kk[2]} |-> IF j = kk[1] THEN v[1] ELSE v[2]]) :
     kk \in {p \in Keys \X Keys : p[1] # p[2]}, v \in Objs1Of(o, Nums) \X Nums}
Values(o) == Atoms \cup Flat(o) \cup Nested(o) \cup Mixed(o)

\* ---- the operations, one call per step ----
Init ==
  /\ a \in Values(1)
  /\ b \in Values(2) \cup {a}
  /\ difff = Undefined
  /\ applied = Undefined
  /\ reverted = Undefined
  /\ unapplied = Undefined
  /\ pc = "start"
  /\ states = <<>>
  /\ diffs = <<>>
  /\ cur = Undefined
  /\ pos = 0
  /\ base = Undefined
  /\ to = "b"
  /\ out = Undefined
  /\ written = {}
  /\ store = NoStore
  /\ calls = <<>>
  /\ failed = FALSE
  /\ deb = DebounceMounted
  /\ thr = ThrottleMounted
  /\ rev = ReversibleMounted
  /\ evt = ListenersMounted
  /\ anim = AnimationMounted
  /\ hook = DevToolsMounted

\* const difff = diff(a, b)
CallDiff ==
  /\ pc = "start"
  /\ difff' = diff(a, b)
  /\ written' = diffWritten(a, b)
  /\ pc' = "diffed"
  /\ UNCHANGED <<a, b, applied, reverted, unapplied, histVars, applyVars, storeVars, hookVars>>

\* applyDiff(a, difff)   (to defaults to 'b')
CallApplyForward ==
  /\ pc = "diffed"
  /\ applied' = applyDiff(a, difff, "b")
  /\ pc' = "applied"
  /\ UNCHANGED <<a, b, difff, reverted, unapplied, histVars, applyVars, written, storeVars, hookVars>>

\* applyDiff(b, difff, 'a')
CallApplyBackward ==
  /\ pc = "diffed"
  /\ reverted' = applyDiff(b, difff, "a")
  /\ pc' = "reverted"
  /\ UNCHANGED <<a, b, difff, applied, unapplied, histVars, applyVars, written, storeVars, hookVars>>

\* applyDiff(applyDiff(a, difff), difff, 'a')
CallUnapply ==
  /\ pc = "applied"
  /\ unapplied' = applyDiff(applied, difff, "a")
  /\ pc' = "unapplied"
  /\ UNCHANGED <<a, b, difff, applied, reverted, histVars, applyVars, written, storeVars, hookVars>>

Next == CallDiff \/ CallApplyForward \/ CallApplyBackward \/ CallUnapply

Spec == Init /\ [][Next]_vars

\* ---- step-by-step time travel (diff.test.ts 554-682) ----
\* s0, s1, ..., sn are recorded with d_i = diff(s_(i-1), s_i); then the value
\* at hand is walked backward with to = 'a' and forward again with to = 'b'.
HistKeys == {"a", "_diff"}
HistValues(o) ==
  {Undefined, Arr(1, Num(1))} \cup Objs0(o)
    \cup {Obj(o, <<k>>, [j \in {k} |-> v]) : k \in HistKeys, v \in Nums}
    \cup {Obj(o, <<"a">>, [j \in {"a"} |-> Obj(o, <<"a">>, [i \in {"a"} |-> v])]) : v \in Nums}

InitHist ==
  /\ a = Undefined
  /\ b = Undefined
  /\ difff = Undefined
  /\ applied = Undefined
  /\ reverted = Undefined
  /\ unapplied = Undefined
  /\ pc = "record"
  /\ \E s0 \in HistValues(1) : states = <<s0>> /\ cur = s0
  /\ diffs = <<>>
  /\ pos = 1
  /\ base = Undefined
  /\ to = "b"
  /\ out = Undefined
  /\ written = {}
  /\ store = NoStore
  /\ calls = <<>>
  /\ failed = FALSE
  /\ deb = DebounceMounted
  /\ thr = ThrottleMounted
  /\ rev = ReversibleMounted
  /\ evt = ListenersMounted
  /\ anim = AnimationMounted
  /\ hook = DevToolsMounted

\* a new state is observed: difff = diff(prevVal.current, val), kept as d_n
Record ==
  /\ pc = "record"
  /\ Len(diffs) < MaxHist
  /\ \E next \in HistValues(Len(states) + 1) :
       LET d == diff(states[Len(states)], next)
       IN /\ states' = Append(states, next)
          /\ diffs' = Append(diffs, d)
          /\ cur' = next
          /\ pos' = Len(states) + 1
  /\ UNCHANGED <<pipeVars, pc, applyVars, written, storeVars, hookVars>>

\* a = applyDiff(a, difffN, 'a')
StepBackward ==
  /\ pc \in {"record", "backward"}
  /\ pos = Len(states) \/ pc = "backward"
  /\ pos > 1
  /\ cur' = applyDiff(cur, diffs[pos - 1], "a")
  /\ pos' = pos - 1
  /\ pc' = "backward"
  /\ UNCHANGED <<pipeVars, states, diffs, applyVars, written, storeVars, hookVars>>

\* a = applyDiff(a, difffN)
StepForward ==
  /\ pc \in {"backward", "forward"}
  /\ pos < Len(states)
  /\ cur' = applyDiff(cur, diffs[pos], "b")
  /\ pos' = pos + 1
  /\ pc' = "forward"
  /\ UNCHANGED <<pipeVars, states, diffs, applyVars, written, storeVars, hookVars>>

NextHist == Record \/ StepBackward \/ StepForward

SpecHist == InitHist /\ [][NextHist]_vars

\* ---- applying a diff onto an arbitrary base (diff.test.ts 268-552) ----
ApplyKeys == {"_diff", "a", "hasOwnProperty"}
ApplyLeaves == Nums \cup {Undefined}
ApplyObjs1(o, vals) == {Obj(o, <<k>>, [j \in {k} |-> v]) : k \in ApplyKeys, v \in vals}
ApplyObjs2(o) ==
  {Obj(o, <<"a", "b">>, [j \in {"a", "b"} |-> IF j = "a" THEN v[1] ELSE v[2]]) :
     v \in Nums \X Nums}
ApplyValues(o) ==
  {Undefined, Null, Fn(o), Arr(o, Num(1))} \cup Nums \cup Objs0(o)
    \cup ApplyObjs1(o, ApplyLeaves) \cup ApplyObjs2(o)
    \cup ApplyObjs1(o, ApplyObjs1(o, Nums))

InitApply ==
  /\ a \in ApplyValues(1)
  /\ b \in ApplyValues(2) \cup {a}
  /\ difff = Undefined
  /\ applied = Undefined
  /\ reverted = Undefined
  /\ unapplied = Undefined
  /\ pc = "start"
  /\ states = <<>>
  /\ diffs = <<>>
  /\ cur = Undefined
  /\ pos = 0
  /\ base = Undefined
  /\ to = "b"
  /\ out = Undefined
  /\ written = {}
  /\ store = NoStore
  /\ calls = <<>>
  /\ failed = FALSE
  /\ deb = DebounceMounted
  /\ thr = ThrottleMounted
  /\ rev = ReversibleMounted
  /\ evt = ListenersMounted
  /\ anim = AnimationMounted
  /\ hook = DevToolsMounted

\* out = applyDiff(base, difff, to), for any base and either direction
CallApplyOnto ==
  /\ pc = "diffed"
  /\ \E base0 \in ApplyValues(3) \cup {a, b}, dir \in {"a", "b"} :
       /\ base' = base0
       /\ to' = dir
       /\ out' = applyDiff(base0, difff, dir)
       /\ written' = applyDiffWritten(base0, difff, dir)
  /\ pc' = "onto"
  /\ UNCHANGED <<pipeVars, histVars, storeVars, hookVars>>

NextApply == CallDiff \/ CallApplyOnto

SpecApply == InitApply /\ [][NextApply]_vars

\* ---- storeDiff called from any call site (part_016 102-118) ----
NsIds == {"x", "y", "constructor"}
CallSites == {"first", "second"}
StoredDiffs == {PrimitiveDiff(Num(0), Num(1)), PrimitiveDiff(Num(1), Num(0))}

InitStore ==
  /\ a = Undefined
  /\ b = Undefined
  /\ difff = Undefined
  /\ applied = Undefined
  /\ reverted = Undefined
  /\ unapplied = Undefined
  /\ pc = "store"
  /\ states = <<>>
  /\ diffs = <<>>
  /\ cur = Undefined
  /\ pos = 0
  /\ base = Undefined
  /\ to = "b"
  /\ out = Undefined
  /\ written = {}
  /\ store \in {NoStore,
                [present |-> TRUE, hasNamespaces |-> FALSE, ns |-> EmptyMap],
                [present |-> TRUE, hasNamespaces |-> TRUE, ns |-> EmptyMap]}
  /\ calls = <<>>
  /\ failed = FALSE
  /\ deb = DebounceMounted
  /\ thr = ThrottleMounted
  /\ rev = ReversibleMounted
  /\ evt = ListenersMounted
  /\ anim = AnimationMounted
  /\ hook = DevToolsMounted

\* storeDiff(namespaceId, d), issued by one of the call sites
StoreDiff ==
  /\ Len(calls) < MaxCalls
  /\ \E site \in CallSites, namespaceId \in NsIds, d \in StoredDiffs :
       /\ store' = storeDiff(store, namespaceId, d)
       /\ failed' = (failed \/ storeDiffThrows(store, namespaceId))
       /\ calls' = Append(calls, [site |-> site, id |-> namespaceId, diff |-> d])
  /\ UNCHANGED <<pipeVars, pc, histVars, applyVars, written, hookVars>>

NextStore == StoreDiff

SpecStore == InitStore /\ [][NextStore]_vars

\* ---- what the hook specifications leave alone: no diff is run ----
NoDiffRun ==
  /\ a = Undefined
  /\ b = Undefined
  /\ difff = Undefined
  /\ applied = Undefined
  /\ reverted = Undefined
  /\ unapplied = Undefined
  /\ pc = "hooks"
  /\ states = <<>>
  /\ diffs = <<>>
  /\ cur = Undefined
  /\ pos = 0
  /\ base = Undefined
  /\ to = "b"
  /\ out = Undefined
  /\ written = {}

\* ---- useDebounce (part_007) ----
DebounceArgs == {"p", "q"}

InitDebounce ==
  /\ NoDiffRun
  /\ store = NoStore
  /\ calls = <<>>
  /\ failed = FALSE
  /\ deb \in {[DebounceMounted EXCEPT !.timeoutMs = ms] : ms \in DebounceDelays}
  /\ thr = ThrottleMounted
  /\ rev = ReversibleMounted
  /\ evt = ListenersMounted
  /\ anim = AnimationMounted
  /\ hook = DevToolsMounted

\* callbackWrapper(...args) that forgets clearTimeout
DebounceCallNoClear ==
  /\ Len(deb.calls) < MaxCalls
  /\ \E args \in DebounceArgs :
       deb' = [deb EXCEPT
                 !.timers = @ \cup {[id |-> deb.nextId, due |-> deb.now + deb.timeoutMs,
                                     call |-> Len(deb.calls) + 1, args |-> args,
                                     callback |-> deb.callback]},
                 !.timeoutId = deb.nextId,
                 !.nextId = @ + 1,
                 !.calls = Append(@, [at |-> deb.now, args |-> args, ms |-> deb.timeoutMs])]
  /\ UNCHANGED <<diffVars, storeVars, thr, rev, evt, anim, hook>>

\* callbackWrapper(...args): clearTimeout(timeoutId.current), then
\* timeoutId.current = setTimeout(..., timeoutMs)
DebounceCall ==
  /\ Len(deb.calls) < MaxCalls
  /\ \E args \in DebounceArgs :
       deb' = [deb EXCEPT
                 !.timers = {t \in @ : t.id # deb.timeoutId}
                              \cup {[id |-> deb.nextId, due |-> deb.now + deb.timeoutMs,
                                     call |-> Len(deb.calls) + 1, args |-> args,
                                     callback |-> deb.callback]},
                 !.timeoutId = deb.nextId,
                 !.nextId = @ + 1,
                 !.calls = Append(@, [at |-> deb.now, args |-> args, ms |-> deb.timeoutMs])]
  /\ UNCHANGED <<diffVars, storeVars, thr, rev, evt, anim, hook>>

\* a render with another callback, timeoutMs or deps: useCallback returns a
\* new callbackWrapper, the ref timeoutId is the same
DebounceRerender ==
  /\ \E ms \in DebounceDelays, cb \in {"first", "second"} :
       /\ <<ms, cb>> # <<deb.timeoutMs, deb.callback>>
       /\ deb' = [deb EXCEPT !.timeoutMs = ms, !.callback = cb]
  /\ UNCHANGED <<diffVars, storeVars, thr, rev, evt, anim, hook>>

\* a timer that is due runs: await callback(...args)
DebounceFire ==
  /\ \E t \in deb.timers :
       /\ t.due <= deb.now
       /\ deb' = [deb EXCEPT
                    !.timers = @ \ {t},
                    !.invoked = Append(@, [at |-> deb.now, call |-> t.call, args |-> t.args,
                                           callback |-> t.callback])]
  /\ UNCHANGED <<diffVars, storeVars, thr, rev, evt, anim, hook>>

\* time passes, never past a timer that is due
DebounceTick ==
  /\ deb.now < MaxTime
  /\ \A t \in deb.timers : t.due > deb.now
  /\ deb' = [deb EXCEPT !.now = @ + 1]
  /\ UNCHANGED <<diffVars, storeVars, thr, rev, evt, anim, hook>>

NextDebounce == DebounceCall \/ DebounceRerender \/ DebounceFire \/ DebounceTick

SpecDebounce == InitDebounce /\ [][NextDebounce]_vars

\* ---- useThrottle (use-throttle.ts) ----
ThrottleArgs == {"p", "q"}

InitThrottle ==
  /\ NoDiffRun
  /\ store = NoStore
  /\ calls = <<>>
  /\ failed = FALSE
  /\ deb = DebounceMounted
  /\ thr \in {[ThrottleMounted EXCEPT !.throttleMs = ms, !.now = ms, !.async = as] :
                ms \in ThrottleDelays, as \in BOOLEAN}
  /\ rev = ReversibleMounted
  /\ evt = ListenersMounted
  /\ anim = AnimationMounted
  /\ hook = DevToolsMounted

\* throttled(...args): lines 39-61
ThrottleCall ==
  /\ Len(thr.calls) < MaxCalls
  /\ \E args \in ThrottleArgs :
       LET sincePrevCall == thr.now - thr.prevCallTimestamp
           call == Len(thr.calls) + 1
           cleared == {t \in thr.timers : t.id # thr.timeoutId}
           made == Append(thr.calls, [at |-> thr.now, args |-> args,
                                      overlapped |-> thr.running # {}])
       IN IF sincePrevCall >= thr.throttleMs
          THEN thr' = [thr EXCEPT
                         !.timers = cleared,
                         !.running = @ \cup {call},
                         !.started = Append(@, [at |-> thr.now, call |-> call, args |-> args]),
                         !.calls = made]
          ELSE thr' = [thr EXCEPT
                         !.timers = cleared \cup
                                      {[id |-> thr.nextId,
                                        due |-> thr.now + (thr.throttleMs - sincePrevCall),
                                        call |-> call, args |-> args]},
                         !.timeoutId = thr.nextId,
                         !.nextId = @ + 1,
                         !.calls = made]
  /\ UNCHANGED <<diffVars, storeVars, deb, rev, evt, anim, hook>>

\* a timer that is due runs callbackWrapper
ThrottleFire ==
  /\ \E t \in thr.timers :
       /\ t.due <= thr.now
       /\ thr' = [thr EXCEPT
                    !.timers = @ \ {t},
                    !.running = @ \cup {t.call},
                    !.started = Append(@, [at |-> thr.now, call |-> t.call, args |-> t.args])]
  /\ UNCHANGED <<diffVars, storeVars, deb, rev, evt, anim, hook>>

\* the awaited callback settles: finally { prevCallTimestamp.current =
\* Date.now() }
ThrottleFinish ==
  /\ \E call \in thr.running :
       thr' = [thr EXCEPT !.running = @ \ {call}, !.prevCallTimestamp = thr.now]
  /\ UNCHANGED <<diffVars, storeVars, deb, rev, evt, anim, hook>>

\* time passes, never past a timer that is due; the continuation of a
\* synchronous callback (a microtask) runs before time passes
ThrottleTick ==
  /\ thr.now < thr.throttleMs + MaxTime
  /\ \A t \in thr.timers : t.due > thr.now
  /\ thr.async \/ thr.running = {}
  /\ thr' = [thr EXCEPT !.now = @ + 1]
  /\ UNCHANGED <<diffVars, storeVars, deb, rev, evt, anim, hook>>

NextThrottle == ThrottleCall \/ ThrottleFire \/ ThrottleFinish \/ ThrottleTick

SpecThrottle == InitThrottle /\ [][NextThrottle]_vars

\* ---- useReversible (part_018) ----
\* what setState is called with: a value, or an updater (current, previous)
\* => previous, or an updater (current) => the next number
ReversibleActions ==
  {[f |-> "value", n |-> i] : i \in 0..MaxNum}
    \cup {[f |-> "previous", n |-> 0], [f |-> "next", n |-> 0]}

\* typeof val === 'function' ? val(current, prevValue.current) : val
ReversibleNewValue(val, current, previous) ==
  IF val.f = "value" THEN val.n
  ELSE IF val.f = "previous" THEN previous
  ELSE (current + 1) % (MaxNum + 1)

\* one updater run by React: the one of setValueReversible (lines 48-57) or
\* the one of undo (lines 60-63)
ReversibleRun(st, u) ==
  IF u.kind = "set"
  THEN LET current == st.value
           newValue == ReversibleNewValue(u.val, current, st.prevValue)
       IN [st EXCEPT
             !.value = newValue,
             !.prevValue = IF newValue # current THEN current ELSE @,
             !.p[u.call] = IF newValue # current THEN current ELSE @,
             !.changedFrom = IF newValue # current THEN current ELSE @,
             !.passed = IF u.val.f = "value" THEN @
                        ELSE Append(@, [previous |-> st.prevValue,
                                        changedFrom |-> st.changedFrom])]
  ELSE [st EXCEPT
          !.value = st.p[u.call],
          !.prevValue = st.p[u.call],
          !.changedFrom = IF st.p[u.call] # st.value THEN st.value ELSE @]

\* the queued updaters run in order
RECURSIVE ReversibleRunAll(_, _, _)
ReversibleRunAll(st, q, i) ==
  IF i = 0 THEN st ELSE ReversibleRun(ReversibleRunAll(st, q, i - 1), q[i])

\* the state once every queued updater has run
ReversibleSettled(st) ==
  [ReversibleRunAll(st, st.queue, Len(st.queue)) EXCEPT !.queue = <<>>]

\* React runs the updater at the call when nothing is queued (eager) or
\* leaves it to the next render
ReversibleDispatch(st, u, eager) ==
  IF eager THEN ReversibleRun(st, u) ELSE [st EXCEPT !.queue = Append(@, u)]

InitReversible ==
  /\ NoDiffRun
  /\ store = NoStore
  /\ calls = <<>>
  /\ failed = FALSE
  /\ deb = DebounceMounted
  /\ thr = ThrottleMounted
  /\ rev = ReversibleMounted
  /\ evt = ListenersMounted
  /\ anim = AnimationMounted
  /\ hook = DevToolsMounted

\* const undo = setValueReversible(val)
ReversibleSet ==
  /\ Len(rev.ops) < MaxCalls
  /\ \E val \in ReversibleActions, eager \in BOOLEAN :
       /\ eager => rev.queue = <<>>
       /\ LET call == Len(rev.ops) + 1
              captured == [rev EXCEPT !.p = Append(@, rev.prevValue)]
              st == ReversibleDispatch(captured, [kind |-> "set", call |-> call, val |-> val],
                                       eager)
          IN rev' = [st EXCEPT
                       !.ops = Append(@, [kind |-> "set", call |-> call,
                                          before |-> ReversibleSettled(rev).value,
                                          after |-> ReversibleSettled(st).value])]
  /\ UNCHANGED <<diffVars, storeVars, deb, thr, evt, anim, hook>>

\* undo(), for the undo function a setValueReversible call returned
ReversibleUndo ==
  /\ Len(rev.ops) < MaxCalls
  /\ \E call \in 1..Len(rev.ops), eager \in BOOLEAN :
       /\ rev.ops[call].kind = "set"
       /\ eager => rev.queue = <<>>
       /\ LET \* p is indexed by call; an undo() call has no p
              captured == [rev EXCEPT !.p = Append(@, 0)]
              st == ReversibleDispatch(captured, [kind |-> "undo", call |-> call,
                                                  val |-> [f |-> "value", n |-> 0]], eager)
          IN rev' = [st EXCEPT
                       !.ops = Append(@, [kind |-> "undo", call |-> call,
                                          before |-> ReversibleSettled(rev).value,
                                          after |-> ReversibleSettled(st).value])]
  /\ UNCHANGED <<diffVars, storeVars, deb, thr, evt, anim, hook>>

\* React renders: the queued updaters run
ReversibleRender ==
  /\ rev.queue # <<>>
  /\ rev' = ReversibleSettled(rev)
  /\ UNCHANGED <<diffVars, storeVars, deb, thr, evt, anim, hook>>

NextReversible == ReversibleSet \/ ReversibleUndo \/ ReversibleRender

SpecReversible == InitReversible /\ [][NextReversible]_vars

\* ---- useEventUntilConditionOrTimeout, useAbortRequest ----
\* abort(): ref.current.abort(); ref.current = new AbortController()
abortActiveListener(e) ==
  [e EXCEPT !.aborted = @ \cup {e.controller}, !.controller = @ + 1]

InitListeners ==
  /\ NoDiffRun
  /\ store = NoStore
  /\ calls = <<>>
  /\ failed = FALSE
  /\ deb = DebounceMounted
  /\ thr = ThrottleMounted
  /\ rev = ReversibleMounted
  /\ evt \in {[ListenersMounted EXCEPT !.timeout = ms] : ms \in ListenerTimeouts}
  /\ anim = AnimationMounted
  /\ hook = DevToolsMounted

\* eventUntilConditionOrTimeout(element, type, listener, options)
ListenerRegister ==
  /\ Len(evt.regs) < MaxCalls
  /\ \E stopActiveListeners \in BOOLEAN :
       LET e == IF stopActiveListeners THEN abortActiveListener(evt) ELSE evt
           reg == Len(evt.regs) + 1
       IN evt' = [e EXCEPT
                    !.regs = Append(@, [at |-> evt.now, signal |-> e.controller,
                                        stopActiveListeners |-> stopActiveListeners,
                                        stopped |-> FALSE, expired |-> FALSE]),
                    !.timers = @ \cup {[due |-> evt.now + evt.timeout, reg |-> reg]}]
  /\ UNCHANGED <<diffVars, storeVars, deb, thr, rev, anim, hook>>

\* an event reaches a listener whose signal is not aborted: listenerWrapper
\* calls listener(e), which will settle with true or not
ListenerReceive ==
  /\ \E reg \in 1..Len(evt.regs), stopListening \in BOOLEAN :
       /\ evt.regs[reg].signal \notin evt.aborted
       /\ evt' = [evt EXCEPT
                    !.inflight = @ \cup {[reg |-> reg, stopListening |-> stopListening]}]
  /\ UNCHANGED <<diffVars, storeVars, deb, thr, rev, anim, hook>>

\* await listener(e) settles: if (stopListening) abortActiveListener()
ListenerSettle ==
  /\ \E call \in evt.inflight :
       LET e == [evt EXCEPT !.inflight = @ \ {call},
                            !.regs[call.reg].stopped = @ \/ call.stopListening]
       IN evt' = IF call.stopListening THEN abortActiveListener(e) ELSE e
  /\ UNCHANGED <<diffVars, storeVars, deb, thr, rev, anim, hook>>

\* cleanup(), timeout ms after the registration
ListenerCleanup ==
  /\ \E t \in evt.timers :
       /\ t.due <= evt.now
       /\ LET e == [evt EXCEPT !.timers = @ \ {t}, !.regs[t.reg].expired = TRUE]
          IN evt' = IF evt.regs[t.reg].signal \notin evt.aborted
                    THEN abortActiveListener(e) ELSE e
  /\ UNCHANGED <<diffVars, storeVars, deb, thr, rev, anim, hook>>

\* time passes, never past a timer that is due
ListenerTick ==
  /\ evt.now < MaxTime
  /\ \A t \in evt.timers : t.due > evt.now
  /\ evt' = [evt EXCEPT !.now = @ + 1]
  /\ UNCHANGED <<diffVars, storeVars, deb, thr, rev, anim, hook>>

NextListeners ==
  ListenerRegister \/ ListenerReceive \/ ListenerSettle \/ ListenerCleanup \/ ListenerTick

SpecListeners == InitListeners /\ [][NextListeners]_vars

\* ---- useReversibleAnimation ----
\* the ids the caller passes; 0 stands for null, for which animate
\* generates an id of its own (negative here)
AnimationIds == {0, 1, 2}

InitAnimation ==
  /\ NoDiffRun
  /\ store = NoStore
  /\ calls = <<>>
  /\ failed = FALSE
  /\ deb = DebounceMounted
  /\ thr = ThrottleMounted
  /\ rev = ReversibleMounted
  /\ evt = ListenersMounted
  /\ anim = AnimationMounted
  /\ hook = DevToolsMounted

\* animate(id, elements)
AnimationAnimate ==
  /\ Len(anim.ops) < MaxCalls
  /\ \E given \in AnimationIds :
       LET call == Len(anim.ops) + 1
           id == IF given # 0 THEN given ELSE 0 - call
           replaced == IF id \in DOMAIN anim.animations THEN {anim.animations[id]} ELSE {}
       IN anim' = [anim EXCEPT
                     !.animations = [i \in (DOMAIN @) \cup {id} |->
                                       IF i = id THEN call ELSE @[i]],
                     !.animationsCount = @ + 1,
                     !.unreversed = @ \cup {call},
                     !.ops = Append(@, [kind |-> "animate", id |-> id,
                                        known |-> replaced = {}])]
  /\ UNCHANGED <<diffVars, storeVars, deb, thr, rev, evt, hook>>

\* reverse(id): lines 160-167
AnimationReverse ==
  /\ Len(anim.ops) < MaxCalls
  /\ \E id \in {anim.ops[i].id : i \in 1..Len(anim.ops)} \cup (AnimationIds \ {0}) :
       LET held == id \in DOMAIN anim.animations
       IN anim' = [anim EXCEPT
                     !.animations = [i \in (DOMAIN @) \ {id} |-> @[i]],
                     !.animationsCount = @ - 1,
                     !.unreversed = IF held THEN @ \ {anim.animations[id]} ELSE @,
                     !.ops = Append(@, [kind |-> "reverse", id |-> id, known |-> held])]
  /\ UNCHANGED <<diffVars, storeVars, deb, thr, rev, evt, hook>>

NextAnimation == AnimationAnimate \/ AnimationReverse

SpecAnimation == InitAnimation /\ [][NextAnimation]_vars

\* ---- useStateDevTools (part_016 87-121) ----
DevToolsNames == {"x", "constructor"}
DevToolsValues(o) == HistValues(o) \cup {NaN, Num(0)}

\* Object.is(x, y), by which useState and the effect's deps compare
ObjectIs(x, y) == x = y

InitDevTools ==
  /\ NoDiffRun
  /\ store = NoStore
  /\ calls = <<>>
  /\ failed = FALSE
  /\ deb = DebounceMounted
  /\ thr = ThrottleMounted
  /\ rev = ReversibleMounted
  /\ evt = ListenersMounted
  /\ anim = AnimationMounted
  /\ \E v0 \in DevToolsValues(1), uniqueName \in DevToolsNames :
       hook = [DevToolsMounted EXCEPT !.id = uniqueName, !.val = v0, !.prevVal = v0,
                                      !.first = v0, !.result = v0, !.effectPending = TRUE]

\* setVal(next) and the render it causes; React bails out when the value
\* is the one it holds
DevToolsSetState ==
  /\ ~hook.crashed /\ ~hook.effectPending
  /\ Len(hook.runs) <= MaxHist
  /\ \E next \in DevToolsValues(Len(hook.runs) + 1) :
       /\ ~ObjectIs(next, hook.val)
       /\ hook' = [hook EXCEPT !.val = next, !.result = next, !.effectPending = TRUE]
  /\ UNCHANGED <<diffVars, storeVars, deb, thr, rev, evt, anim>>

\* the effect of lines 102-118, after the first render and after every
\* render with a new val
DevToolsEffect ==
  /\ ~hook.crashed /\ hook.effectPending
  /\ LET d == diff(hook.prevVal, hook.val)
         stores == Truthy(d)
         throws == stores /\ storeDiffThrows(store, hook.id)
         seen == Append(hook.runs, [prev |-> hook.prevVal, val |-> hook.val])
     IN /\ store' = IF stores THEN storeDiff(store, hook.id, d) ELSE store
        /\ calls' = IF stores
                    THEN Append(calls, [site |-> "first", id |-> hook.id, diff |-> d])
                    ELSE calls
        /\ failed' = (failed \/ throws)
        /\ hook' = [hook EXCEPT !.prevVal = IF throws THEN @ ELSE hook.val,
                                !.effectPending = FALSE,
                                !.crashed = throws,
                                !.runs = seen]
  /\ UNCHANGED <<diffVars, deb, thr, rev, evt, anim>>

NextDevTools == DevToolsSetState \/ DevToolsEffect

SpecDevTools == InitDevTools /\ [][NextDevTools]_vars

\* ---- helpers of the properties ----
\* the own property of v under key, undefined when v owns none
GetOwn(v, key) == IF key \in DOMAIN v.m THEN v.m[key] ELSE Undefined

\* a plain mapping of the data model: keyed, neither null nor a list
IsMapping(v) == v.t = "object"

\* identity of the data model: the same primitive (NaN excepted) or the
\* same reference
Identical(x, y) == x.t # "nan" /\ x = y

\* mappings by key set and recursively by value, everything else by identity
RECURSIVE DeepStrictEq(_, _)
DeepStrictEq(x, y) ==
  IF IsMapping(x) /\ IsMapping(y)
  THEN /\ DOMAIN x.m = DOMAIN y.m
       /\ \A k \in DOMAIN x.m : DeepStrictEq(x.m[k], y.m[k])
  ELSE Identical(x, y)

\* some mapping inside v (at any depth) has an own key named _diff
RECURSIVE HasDiffKey(_)
HasDiffKey(v) ==
  /\ v.t \in {"object", "array"}
  /\ \/ "_diff" \in DOMAIN v.m
     \/ \E k \in DOMAIN v.m : HasDiffKey(v.m[k])

\* v[p1][p2]...
RECURSIVE GetPath(_, _)
GetPath(v, p) == IF p = <<>> THEN v ELSE GetPath(Get(v, Head(p)), Tail(p))

\* the paths of the PrimitiveDiff leaves of d, d being the diff of x and y
RECURSIVE LeafPaths(_, _, _)
LeafPaths(d, x, y) ==
  IF IsMapping(x) /\ IsMapping(y)
  THEN UNION {{<<k>> \o p : p \in LeafPaths(Get(d, k), Get(x, k), Get(y, k))} : k \in DOMAIN d.m}
  ELSE IF d = Undefined THEN {} ELSE {<<>>}

\* no NaN inside v
RECURSIVE NoNaN(_)
NoNaN(v) == v.t # "nan" /\ \A k \in DOMAIN v.m : NoNaN(v.m[k])

\* y is x itself, or (for mappings) has the same keys holding the same values
RECURSIVE SameValue(_, _)
SameValue(x, y) ==
  IF IsMapping(x) /\ IsMapping(y)
  THEN /\ DOMAIN x.m = DOMAIN y.m
       /\ \A k \in DOMAIN x.m : SameValue(x.m[k], y.m[k])
  ELSE x = y

\* the keys of x and y were inserted in a different order at some level
RECURSIVE OrderDiffers(_, _)
OrderDiffers(x, y) ==
  /\ IsMapping(x) /\ IsMapping(y)
  /\ \/ x.ks # y.ks
     \/ \E k \in (DOMAIN x.m) \cap (DOMAIN y.m) : OrderDiffers(x.m[k], y.m[k])

IsList(v) == v.t = "array"
IsFunction(v) == v.t = "function"
DistinctRefs(x, y) == x.t = y.t /\ (IsList(x) \/ IsFunction(x)) /\ x.id # y.id

IsEmptyMapping(v) == v.t = "object" /\ Len(v.ks) = 0

\* d, the diff of x and y, holds no empty ObjectDiff at any depth
RECURSIVE NonEmptyDiff(_, _, _)
NonEmptyDiff(d, x, y) ==
  /\ ~IsEmptyMapping(d)
  /\ (IsMapping(x) /\ IsMapping(y)) =>
        \A k \in DOMAIN d.m : NonEmptyDiff(d.m[k], Get(x, k), Get(y, k))

\* every PrimitiveDiff leaf of d, the diff of x and y, holds two different
\* values that are not both plain mappings
RECURSIVE LeavesDiffer(_, _, _)
LeavesDiffer(d, x, y) ==
  IF IsMapping(x) /\ IsMapping(y)
  THEN \A k \in DOMAIN d.m : LeavesDiffer(d.m[k], Get(x, k), Get(y, k))
  ELSE \/ d = Undefined
       \/ LET before == Get(Get(d, "_diff"), "a")
              after == Get(Get(d, "_diff"), "b")
          IN /\ ~Identical(before, after)
             /\ ~(IsMapping(before) /\ IsMapping(after))

\* ---- properties ----

\* C1: applyDiff(a, diff(a, b)) with the default direction equals b (toEqual:
\* deep equality in which a key holding undefined counts as absent).
ForwardRoundTrip == pc = "applied" => toEqual(applied, b)

\* The forward round trip on values none of whose mappings has a key _diff.
ForwardRoundTripPlainKeys ==
  (pc = "applied" /\ ~HasDiffKey(a) /\ ~HasDiffKey(b)) => toEqual(applied, b)

\* C2: applyDiff(b, diff(a, b), 'a') equals a.
BackwardRoundTrip == pc = "reverted" => toEqual(reverted, a)

\* The backward round trip on values none of whose mappings has a key _diff.
BackwardRoundTripPlainKeys ==
  (pc = "reverted" /\ ~HasDiffKey(a) /\ ~HasDiffKey(b)) => toEqual(reverted, a)

\* C3: applyDiff(applyDiff(a, d), d, 'a') with d = diff(a, b) equals a at
\* every leaf covered by d.
UnapplyRestoresLeaves ==
  pc = "unapplied" =>
    \A p \in LeafPaths(difff, a, b) : toEqual(GetPath(unapplied, p), GetPath(a, p))

\* Undoing an applied diff on values none of whose mappings has a key _diff.
UnapplyRestoresLeavesPlainKeys ==
  (pc = "unapplied" /\ ~HasDiffKey(a) /\ ~HasDiffKey(b)) =>
    \A p \in LeafPaths(difff, a, b) : toEqual(GetPath(unapplied, p), GetPath(a, p))

\* C4: walking backward from s_n with to = 'a' and then forward with
\* to = 'b', the value at hand always equals the recorded state s_pos.
TimeTravelReproducesState == toEqual(cur, states[pos])

\* Time travel over states none of whose mappings has a key _diff.
TimeTravelPlainKeys ==
  (\A i \in 1..Len(states) : ~HasDiffKey(states[i])) => toEqual(cur, states[pos])

\* C5 (as stated): diff(v, v) is undefined for every v: primitives, a list or
\* function against the same reference, a mapping against itself or a
\* structurally equal mapping.
DiffOfSameIsNoDiff == (pc = "diffed" /\ SameValue(a, b)) => difff = Undefined

\* C5 (amended): the same, for every v that holds no NaN.
DiffOfSameIsNoDiffExceptNaN ==
  (pc = "diffed" /\ SameValue(a, b) /\ NoNaN(a)) => difff = Undefined

DiffOfSameWitness ==
  /\ pc = "diffed" /\ SameValue(a, b) /\ NoNaN(a)
  /\ IsMapping(a) /\ \E k \in DOMAIN a.m : IsMapping(a.m[k]) /\ a.m[k].ks # <<>>
  /\ difff = Undefined

\* C6: two mappings that are deep-equal but whose keys were inserted in a
\* different order (at any nesting level) have no diff.
KeyOrderIsIrrelevant ==
  (pc = "diffed" /\ DeepStrictEq(a, b) /\ OrderDiffers(a, b)) => difff = Undefined

KeyOrderWitness ==
  /\ pc = "diffed" /\ DeepStrictEq(a, b) /\ OrderDiffers(a, b)
  /\ a.ks = b.ks
  /\ difff = Undefined

\* C7: when exactly one of a, b is a plain mapping, diff(a, b) is exactly the
\* PrimitiveDiff holding a and b themselves; null is not a mapping.
MixedKindsGivePrimitiveDiff ==
  (pc = "diffed" /\ IsMapping(a) # IsMapping(b)) => difff = PrimitiveDiff(a, b)

MixedKindsWitness ==
  /\ pc = "diffed" /\ a = Null /\ IsMapping(b) /\ b.ks # <<>>
  /\ difff = PrimitiveDiff(a, b)

\* C8: two distinct lists (even with the same contents) or two distinct
\* functions always give the PrimitiveDiff holding both, at the top level and
\* under a mapping key.
DistinctRefsGivePrimitiveDiff ==
  pc = "diffed" =>
    /\ DistinctRefs(a, b) => difff = PrimitiveDiff(a, b)
    /\ (IsMapping(a) /\ IsMapping(b)) =>
         \A k \in Keys : DistinctRefs(Get(a, k), Get(b, k)) =>
            Get(difff, k) = PrimitiveDiff(Get(a, k), Get(b, k))

DistinctRefsWitness ==
  /\ pc = "diffed" /\ IsMapping(a) /\ IsMapping(b)
  /\ \E k \in Keys : /\ DistinctRefs(Get(a, k), Get(b, k))
                     /\ toEqual(Get(a, k), Get(b, k))
                     /\ isPrimitiveDiff(Get(difff, k))

\* C9: diff never returns an empty mapping, no ObjectDiff nested in its
\* result is empty, and when no key differs the result is undefined.
ObjectDiffNeverEmpty ==
  pc = "diffed" =>
    /\ NonEmptyDiff(difff, a, b)
    /\ (IsMapping(a) /\ IsMapping(b) /\ DeepStrictEq(a, b)) => difff = Undefined

ObjectDiffWitness ==
  /\ pc = "diffed" /\ IsMapping(a) /\ IsMapping(b)
  /\ \E k \in Keys : /\ IsMapping(Get(a, k)) /\ IsMapping(Get(b, k))
                     /\ DeepStrictEq(Get(a, k), Get(b, k))
                     /\ difff # Undefined
                     /\ ~hasOwnProperty(difff, k)

\* C10: every PrimitiveDiff leaf of diff(a, b) holds a before that differs
\* from its after (!==), and never two plain mappings.
PrimitiveDiffLeavesDiffer == pc = "diffed" => LeavesDiffer(difff, a, b)

PrimitiveDiffLeavesWitness ==
  /\ pc = "diffed"
  /\ \E p \in LeafPaths(difff, a, b) : Len(p) = 2

\* C11: for two mappings, the keys of diff(a, b) are exactly the keys of
\* either side whose recursive diff is not absent, each once and holding
\* that recursive diff; a key that only one side owns is diffed against
\* undefined.
DiffKeySetIsExact ==
  (pc = "diffed" /\ IsMapping(a) /\ IsMapping(b)) =>
    LET changed == {k \in (DOMAIN a.m) \cup (DOMAIN b.m) :
                      diff(Get(a, k), Get(b, k)) # Undefined}
    IN /\ DOMAIN difff.m = changed
       /\ \A k \in changed : difff.m[k] = diff(Get(a, k), Get(b, k))
       /\ Len(difff.ks) = Cardinality(changed)
       /\ {difff.ks[i] : i \in 1..Len(difff.ks)} = changed
       /\ \A k \in (DOMAIN a.m) \ (DOMAIN b.m) :
            a.m[k] # Undefined => GetOwn(difff, k) = PrimitiveDiff(a.m[k], Undefined)
       /\ \A k \in (DOMAIN b.m) \ (DOMAIN a.m) :
            b.m[k] # Undefined => GetOwn(difff, k) = PrimitiveDiff(Undefined, b.m[k])

\* C12: when diff(a, b) is a PrimitiveDiff, applyDiff returns the side the
\* direction selects (b forward, a backward) whatever the base is.
PrimitiveDiffSelectsSide ==
  (pc = "onto" /\ ~(IsMapping(a) /\ IsMapping(b)) /\ difff # Undefined) =>
    out = IF to = "b" THEN b ELSE a

PrimitiveDiffSelectsWitness ==
  /\ pc = "onto" /\ ~(IsMapping(a) /\ IsMapping(b)) /\ difff # Undefined
  /\ to = "a" /\ IsMapping(base) /\ base # a /\ base # b
  /\ out = a /\ IsMapping(a)

EmptyDiffReturnsSameReference ==
  (pc = "onto" /\ Identical(a, b) /\ base = a /\ (IsList(a) \/ IsMapping(a))) =>
    Identical(out, a)

\* the result covers base and the diff: its keys are those of base and of
\* the diff, a key outside the diff keeps base's value, a key of the diff
\* holds the recursive application
Frame(res, x, d, dir) ==
  /\ IsMapping(res)
  /\ DOMAIN res.m = (DOMAIN x.m) \cup (DOMAIN d.m)
  /\ \A k \in (DOMAIN x.m) \ (DOMAIN d.m) : res.m[k] = x.m[k]
  /\ \A k \in DOMAIN d.m : res.m[k] = applyDiff(Get(x, k), d.m[k], dir)

\* C15: when base is a mapping and the diff is the ObjectDiff of two
\* mappings, applyDiff changes only what the diff covers.
ObjectDiffFrame ==
  (pc = "onto" /\ IsMapping(base) /\ IsMapping(a) /\ IsMapping(b) /\ difff # Undefined) =>
    Frame(out, base, difff, to)

\* the frame holds for every ObjectDiff that has no key `_diff` of its own
\* and whose application returns
ObjectDiffFramePlainKeys ==
  (/\ pc = "onto" /\ IsMapping(base) /\ IsMapping(a) /\ IsMapping(b) /\ difff # Undefined
   /\ "_diff" \notin DOMAIN difff.m /\ out # Thrown) =>
    Frame(out, base, difff, to)

\* C16: when the diff is the ObjectDiff of two mappings and base is not a
\* mapping, applyDiff returns a mapping that holds, for every key of the
\* diff, the sub-diff applied to an absent field.
ObjectDiffOnNonMapping ==
  (pc = "onto" /\ ~IsMapping(base) /\ IsMapping(a) /\ IsMapping(b) /\ difff # Undefined) =>
    /\ IsMapping(out)
    /\ DOMAIN out.m = DOMAIN difff.m
    /\ \A k \in DOMAIN difff.m : out.m[k] = applyDiff(Undefined, difff.m[k], to)

\* C17: applyDiff never throws: for every base, every diff and both
\* directions the call returns a value.
ApplyDiffNeverThrows == pc = "onto" => out # Thrown

\* every application of a diff that owns no key hasOwnProperty, at any
\* depth, returns
RECURSIVE OwnsKeyDeep(_, _)
OwnsKeyDeep(v, key) ==
  /\ v.t \in {"object", "array"}
  /\ \/ key \in DOMAIN v.m
     \/ \E k \in DOMAIN v.m : OwnsKeyDeep(v.m[k], key)

ApplyDiffReturnsPlainKeys ==
  (pc = "onto" /\ ~OwnsKeyDeep(difff, "hasOwnProperty")) => out # Thrown

\* the identities of the mappings and lists reachable from v
RECURSIVE IdsIn(_)
IdsIn(v) ==
  IF v.t \in {"object", "array"}
  THEN {v.id} \cup UNION {IdsIn(v.m[k]) : k \in DOMAIN v.m}
  ELSE {}

\* C18: diff and applyDiff are pure: no object reachable from an argument
\* (the compared values, the base, the diff) is assigned to.
NoArgumentMutated ==
  /\ pc = "diffed" => written \cap (IdsIn(a) \cup IdsIn(b)) = {}
  /\ pc = "onto" => written \cap (IdsIn(base) \cup IdsIn(difff)) = {}

NoArgumentMutatedWitness ==
  /\ pc = "onto" /\ written # {}
  /\ IsMapping(base) /\ IsMapping(out)
  /\ \E k \in DOMAIN base.m :
       /\ IsMapping(base.m[k]) /\ IsMapping(out.m[k])
       /\ out.m[k].m # base.m[k].m

\* the entries stored under an id, none when there is no such namespace
EntriesOf(g, id) ==
  IF g.present /\ g.hasNamespaces /\ id \in DOMAIN g.ns /\ g.ns[id].isNamespace
  THEN g.ns[id].stateEntries
  ELSE <<>>

\* the diffs of the calls made with an id, in call order, each as {diff}
CallsWith(id) ==
  LET sel == SelectSeq(calls, LAMBDA c : c.id = id)
  IN [i \in 1..Len(sel) |-> [diff |-> sel[i].diff]]

\* C19: after every sequence of storeDiff calls, from any call sites and
\* with any ids, each namespace holds exactly the diffs of the calls made
\* with its id, in call order, each wrapped as {diff}.
EntriesAreCallsInOrder ==
  \A id \in NsIds : EntriesOf(store, id) = CallsWith(id)

\* the entries are the calls, in order, for every id that Object.prototype
\* does not define
EntriesAreCallsInOrderOwnIds ==
  \A id \in NsIds \ DOMAIN ObjectPrototype : EntriesOf(store, id) = CallsWith(id)

\* C20: storeDiff never fails: whatever of the store, its stateNamespaces
\* and the namespace is missing is created, and after the first write to an
\* id its namespace holds exactly one entry.
StoreDiffNeverFails ==
  /\ ~failed
  /\ Len(calls) > 0 => store.present /\ store.hasNamespaces
  /\ \A id \in NsIds : Len(CallsWith(id)) = 1 => Len(EntriesOf(store, id)) = 1

\* no call fails as long as no id is the name of a member of
\* Object.prototype
StoreDiffNeverFailsOwnIds ==
  (\A i \in 1..Len(calls) : calls[i].id \notin DOMAIN ObjectPrototype) => ~failed

\* the invocations of the wrapped callback that the call-th call scheduled
DebounceInvocationsOf(call) ==
  {i \in 1..Len(deb.invoked) : deb.invoked[i].call = call}

\* C21: useDebounce: a call followed by another one less than timeoutMs
\* later invokes nothing; the last call of such a burst invokes the wrapped
\* callback exactly once, with its own arguments, timeoutMs after it; at
\* most one invocation is pending at any moment, renders in between
\* included.
DebounceOncePerBurst ==
  /\ Cardinality(deb.timers) <= 1
  /\ \A j \in 1..Len(deb.calls) :
       LET c == deb.calls[j]
           due == c.at + c.ms
           n == Cardinality(DebounceInvocationsOf(j))
       IN IF j < Len(deb.calls) /\ deb.calls[j + 1].at < due
          THEN n = 0
          ELSE /\ n <= 1
               /\ \A i \in DebounceInvocationsOf(j) :
                    deb.invoked[i].at = due /\ deb.invoked[i].args = c.args
               /\ (j = Len(deb.calls) /\ deb.now > due) => n = 1

DebounceWitness ==
  /\ Len(deb.calls) = 3 /\ Len(deb.invoked) = 1
  /\ deb.invoked[1].call = 3
  /\ deb.calls[1].ms # deb.calls[3].ms
  /\ deb.calls[2].args # deb.calls[3].args
  /\ deb.calls[2].at > deb.calls[1].at

\* any two starts of the wrapped callback are at least throttleMs apart
ThrottleSpaced ==
  \A i, j \in 1..Len(thr.started) :
    i < j => thr.started[j].at - thr.started[i].at >= thr.throttleMs

\* the last call has started with its own arguments or its timer is pending
ThrottleLastCallServed ==
  Len(thr.calls) > 0 =>
    LET j == Len(thr.calls)
    IN \/ \E i \in 1..Len(thr.started) :
            thr.started[i].call = j /\ thr.started[i].args = thr.calls[j].args
       \/ \E t \in thr.timers : t.call = j /\ t.args = thr.calls[j].args

\* C22: useThrottle: any two starts of the wrapped callback are at least
\* throttleMs apart, calls in the same tick and asynchronous callbacks
\* included, and the last call of a burst is executed with its own
\* arguments.
ThrottleSpacedAndLastServed == ThrottleSpaced /\ ThrottleLastCallServed

\* the starts are spaced whenever no call is made while an earlier
\* invocation has not reached its finally block, and the last call is
\* always served
ThrottleSpacedWithoutOverlap ==
  /\ (\A j \in 1..Len(thr.calls) : ~thr.calls[j].overlapped) => ThrottleSpaced
  /\ ThrottleLastCallServed

\* every undo() so far left the state at the value it had immediately
\* before the setState call it belongs to
UndoRestoresBefore ==
  \A k \in 1..Len(rev.ops) :
    rev.ops[k].kind = "undo" => rev.ops[k].after = rev.ops[rev.ops[k].call].before

\* every updater was passed, as its second parameter, the value the state
\* had before its most recent change
PreviousIsBeforeLastChange ==
  \A i \in 1..Len(rev.passed) : rev.passed[i].previous = rev.passed[i].changedFrom

\* C23: useReversible: the undo function a setState call returned restores
\* the value the state had immediately before that call, also when the call
\* set the value already held, and an updater's second parameter is the
\* value the state had before its most recent change.
UndoUndoesItsCall == UndoRestoresBefore /\ PreviousIsBeforeLastChange

\* undo() restores the value before its call whenever that call changed
\* the state, and the second parameter is right as long as no undo ran
UndoUndoesAChange ==
  /\ \A k \in 1..Len(rev.ops) :
       LET set == rev.ops[rev.ops[k].call]
       IN (rev.ops[k].kind = "undo" /\ set.before # set.after) =>
            rev.ops[k].after = set.before
  /\ (\A k \in 1..Len(rev.ops) : rev.ops[k].kind = "set") => PreviousIsBeforeLastChange

\* a listener whose timeout has run out or that returned true no longer
\* receives events
ListenerStopsInTime ==
  \A k \in 1..Len(evt.regs) :
    (evt.regs[k].expired \/ evt.regs[k].stopped) => evt.regs[k].signal \in evt.aborted

\* a listener stops receiving events only for its own timeout, its own
\* result, or a later registration that asked for stopActiveListeners
ListenerNotCutShort ==
  \A k \in 1..Len(evt.regs) :
    evt.regs[k].signal \in evt.aborted =>
      \/ evt.regs[k].expired
      \/ evt.regs[k].stopped
      \/ \E j \in (k + 1)..Len(evt.regs) : evt.regs[j].stopActiveListeners

\* C24: useEventUntilConditionOrTimeout: every registered listener receives
\* events until its own timeout has run out or it returned true, never
\* afterwards, and is not cut short by another registration's timeout or
\* result unless stopActiveListeners was requested.
ListenerLivesItsOwnLife == ListenerStopsInTime /\ ListenerNotCutShort

\* C25: useReversibleAnimation: animationsCount is the number of animate
\* calls whose animations have not been reversed and is never negative;
\* reversing an id that holds no animation changes nothing.
AnimationsCountIsUnreversed ==
  /\ anim.animationsCount = Cardinality(anim.unreversed)
  /\ anim.animationsCount >= 0

\* the count is right as long as every animate call used an id that held
\* no animation and every reverse call an id that held one
AnimationsCountWhenUsedInPairs ==
  (\A i \in 1..Len(anim.ops) : anim.ops[i].known) =>
    /\ anim.animationsCount = Cardinality(anim.unreversed)
    /\ anim.animationsCount >= 0

\* the runs of the effect, the first render excepted, in which val was not
\* structurally equal to the value before
DevToolsTransitions ==
  {i \in 2..Len(hook.runs) : ~SameValue(hook.runs[i].prev, hook.runs[i].val)}

\* the namespace of the hook holds one entry per transition, each with a
\* diff, no other namespace exists, and the hook returns val as it got it
DevToolsOneEntryPerTransition ==
  /\ Len(EntriesOf(store, hook.id)) = Cardinality(DevToolsTransitions)
  /\ \A i \in 1..Len(EntriesOf(store, hook.id)) :
       EntriesOf(store, hook.id)[i].diff # Undefined
  /\ \A id \in (DOMAIN store.ns) \ {hook.id} : FALSE
  /\ hook.result = hook.val

\* C26: useStateDevTools stores one entry per value transition and nothing
\* else: none for the first render, none when the new state is structurally
\* equal to the previous one; every entry holds a diff; the value is
\* returned as is.
DevToolsRecordsTransitions == DevToolsOneEntryPerTransition

\* the same for a hook whose name Object.prototype does not define and
\* whose first state holds no NaN
DevToolsRecordsTransitionsPlain ==
  (hook.id \notin DOMAIN ObjectPrototype /\ NoNaN(hook.first)) =>
    DevToolsOneEntryPerTransition

\* applyDiff folded forward over the first i entries, starting from v
RECURSIVE ReplayForward(_, _, _)
ReplayForward(v, entries, i) ==
  IF i = 0 THEN v ELSE applyDiff(ReplayForward(v, entries, i - 1), entries[i].diff, "b")

\* applyDiff folded backward over the entries i, i + 1, ..., last first
RECURSIVE ReplayBackward(_, _, _)
ReplayBackward(v, entries, i) ==
  IF i > Len(entries) THEN v
  ELSE applyDiff(ReplayBackward(v, entries, i + 1), entries[i].diff, "a")

HistoryReplays ==
  LET entries == EntriesOf(store, hook.id)
  IN /\ toEqual(ReplayForward(hook.first, entries, Len(entries)), hook.val)
     /\ toEqual(ReplayBackward(hook.val, entries, 1), hook.first)

\* C27: once the effect of the last render has run, folding applyDiff
\* forward over the stored entries from v0 yields a value deep-equal to the
\* current state, and folding it backward from the current state yields v0.
HistoryReplayReproducesState == ~hook.effectPending => HistoryReplays

\* the replay works for a hook whose name Object.prototype does not define
\* and whose states have no key _diff
HistoryReplayPlainKeys ==
  (/\ ~hook.effectPending
   /\ hook.id \notin DOMAIN ObjectPrototype
   /\ \A i \in 1..Len(hook.runs) : ~HasDiffKey(hook.runs[i].val)) =>
    HistoryReplays

\* what a storeDiff(id, d) step does to the entries: those of every other
\* namespace stay, those of id gain {diff: d} at the end
StoreDiffStep(ids) ==
  (calls' # calls /\ calls'[Len(calls')].id \in ids) =>
    LET id == calls'[Len(calls')].id
        d == calls'[Len(calls')].diff
    IN /\ \A other \in NsIds \ {id} : EntriesOf(store', other) = EntriesOf(store, other)
       /\ EntriesOf(store', id) = Append(EntriesOf(store, id), [diff |-> d])

\* C28: storeDiff(id, d) changes only the namespace id: every other
\* namespace and the entries id already had are as before, and id has
\* exactly one entry more.
StoreDiffFrame == [][StoreDiffStep(NsIds)]_vars

\* the frame holds for every id that Object.prototype does not define
StoreDiffFrameOwnIds == [][StoreDiffStep(NsIds \ DOMAIN ObjectPrototype)]_vars

\* the guards of applyDiff take d, the diff of x and y, for exactly one of
\* PrimitiveDiff and ObjectDiff, and for an ObjectDiff exactly when x and y
\* are both mappings
Recognised(d, x, y) ==
  /\ isPrimitiveDiff(d) # isObjectDiff(d)
  /\ isObjectDiff(d) = (IsMapping(x) /\ IsMapping(y))

\* C29: every non-absent diff(a, b) is recognised by applyDiff as exactly
\* one of PrimitiveDiff and ObjectDiff, also for mappings that have keys
\* named _diff, a or b, so applyDiff(a, diff(a, b)) never falls through to
\* its final return undefined and never takes user data for a
\* PrimitiveDiff.
DiffIsRecognised ==
  /\ (pc = "diffed" /\ difff # Undefined) => Recognised(difff, a, b)
  /\ (pc = "applied" /\ difff # Undefined /\ ~Identical(b, Undefined)) =>
       ~Identical(applied, Undefined)

\* the diff of values without a key _diff is recognised
DiffIsRecognisedPlainKeys ==
  /\ (pc = "diffed" /\ difff # Undefined /\ ~HasDiffKey(a) /\ ~HasDiffKey(b)) =>
       Recognised(difff, a, b)
  /\ (/\ pc = "applied" /\ difff # Undefined /\ ~Identical(b, Undefined)
      /\ ~HasDiffKey(a) /\ ~HasDiffKey(b)) =>
       ~Identical(applied, Undefined)

\* mappings by value with a key holding undefined counting as absent,
\* everything else by identity
RECURSIVE DeepEqAbsentKeys(_, _)
DeepEqAbsentKeys(x, y) ==
  IF IsMapping(x) /\ IsMapping(y)
  THEN \A k \in (DOMAIN x.m) \cup (DOMAIN y.m) : DeepEqAbsentKeys(GetOwn(x, k), GetOwn(y, k))
  ELSE Identical(x, y)

====
